---- MODULE Spec2Model ----
(***************************************************************************)
(* typepilot: WebResearchAssistant (src/type_pilot.py).                    *)
(*                                                                         *)
(* One query is taken through search_bing, parallel_webpage_scraping (a    *)
(* fan-out of fetch_webpage_content coroutines joined by asyncio.gather)   *)
(* and summarize_with_gemini.  The remote services are the environment:    *)
(* their replies are chosen nondeterministically from small sets.          *)
(*                                                                         *)
(* Texts (page text, corpus, summary) are sequences of one-character       *)
(* strings, so that split/join/strip are computed as Python computes them. *)
(* URLs and titles are opaque TLA+ strings ("" is the empty string).       *)
(***************************************************************************)
EXTENDS Integers, Sequences, FiniteSets, TLC

VARIABLES
    pc,               \* position of research_and_summarize
    searchResponse,   \* what the search provider answered (environment)
    search_results,   \* local of research_and_summarize (line 135)
    pending,          \* positions whose fetch coroutine is still in flight
    outcome,          \* per position: what happened to its request (environment)
    contents,         \* per position: the result slot of asyncio.gather (line 88)
    reversed,         \* history: the fetches so far completed in descending position order
    scraped_content,  \* local of research_and_summarize (line 141)
    geminiResponse,   \* what the summarization service answered (environment)
    summary,          \* value returned by research_and_summarize (line 146)
    raisedIn,         \* the stage whose exception left research_and_summarize, or "none"
    stages,           \* history: the stages entered, in order
    fetchCalls,       \* history: per position, how often fetch_webpage_content was called
    summarizeArgs     \* history: the argument of every summarize_with_gemini call

vars == <<pc, searchResponse, search_results, pending, outcome, contents, reversed,
          scraped_content, geminiResponse, summary, raisedIn, stages, fetchCalls,
          summarizeArgs>>

(***************************************************************************)
(* Bounds of the model.                                                    *)
(***************************************************************************)
MaxResults == 3     \* entries of a search response in the full pipeline (Spec)
MaxEntries == 11    \* entries of a search response in the search-only runs (SpecSearch)

(***************************************************************************)
(* Program constants.                                                      *)
(***************************************************************************)
COUNT == 10         \* params["count"], the number of results asked for
HTTP_OK == 200      \* the status every stage compares with

(***************************************************************************)
(* Python helpers on texts.                                                *)
(***************************************************************************)
EmptyText == <<>>
Space == " "
IsSpace(c) == c \in {" ", "\n", "\t"}

\* str.split() with no argument: the maximal runs of non-whitespace.
RECURSIVE SplitAcc(_, _, _)
SplitAcc(s, cur, acc) ==
    IF s = <<>>
    THEN IF cur = <<>> THEN acc ELSE Append(acc, cur)
    ELSE IF IsSpace(Head(s))
         THEN SplitAcc(Tail(s), <<>>, IF cur = <<>> THEN acc ELSE Append(acc, cur))
         ELSE SplitAcc(Tail(s), Append(cur, Head(s)), acc)

Split(s) == SplitAcc(s, <<>>, <<>>)

\* ' '.join(parts)
RECURSIVE JoinSpace(_)
JoinSpace(parts) ==
    IF parts = <<>> THEN EmptyText
    ELSE IF Len(parts) = 1 THEN parts[1]
    ELSE parts[1] \o <<Space>> \o JoinSpace(Tail(parts))

\* filter(bool, parts): the non-empty strings, order kept.
NonEmpty(parts) == SelectSeq(parts, LAMBDA t : t # EmptyText)

\* str.strip()
RECURSIVE LStrip(_)
LStrip(s) == IF s # <<>> /\ IsSpace(Head(s)) THEN LStrip(Tail(s)) ELSE s
RECURSIVE RStrip(_)
RStrip(s) == IF s # <<>> /\ IsSpace(s[Len(s)]) THEN RStrip(SubSeq(s, 1, Len(s) - 1)) ELSE s
Strip(s) == RStrip(LStrip(s))

\* dict.get(key, default)
Get(d, k, default) == IF k \in DOMAIN d THEN d[k] ELSE default

EmptyDict == [k \in {} |-> ""]

RECURSIVE Flatten(_)
Flatten(seqs) == IF seqs = <<>> THEN <<>> ELSE Head(seqs) \o Flatten(Tail(seqs))

\* What a call hands back: a value, or an exception leaving the function.
Return(v) == [raised |-> FALSE, exc |-> "", value |-> v]
Raise(e) == [raised |-> TRUE, exc |-> e, value |-> <<>>]

(***************************************************************************)
(* The search provider and search_bing (lines 14-43).                      *)
(***************************************************************************)
EntryA == [url |-> "http://a", name |-> "A"]
EntryB == [url |-> "http://b", name |-> "B"]
EntryNoUrl == [name |-> "A"]
EntryNoName == [url |-> "http://a"]
EntryKinds == {EntryA, EntryB, EntryNoUrl, EntryNoName, EmptyDict}
PipelineEntries == {EntryA, EntryNoUrl}

Lists(S, n) == UNION {[1..k -> S] : k \in 0..n}

\* The lists up to length n that repeat a pattern of three entries.
PeriodicLists(S, n) ==
    {[i \in 1..k |-> p[1 + ((i - 1) % 3)]] : k \in 0..n, p \in [1..3 -> S]}

ErrorStatuses == {403, 500}

\* A reply is a transport failure, or a status with a body; json says whether
\* the body decodes to the expected JSON shape, data is the decoded object.
TransportFailure == [transport |-> "failed", status |-> 0, json |-> FALSE, data |-> EmptyDict]
HttpReply(st, js, d) == [transport |-> "ok", status |-> st, json |-> js, data |-> d]

SearchResponses(lists) ==
    {TransportFailure, HttpReply(HTTP_OK, FALSE, EmptyDict),
     HttpReply(HTTP_OK, TRUE, EmptyDict),
     HttpReply(HTTP_OK, TRUE, [webPages |-> EmptyDict])}
    \cup {HttpReply(st, TRUE, EmptyDict) : st \in ErrorStatuses}
    \cup {HttpReply(HTTP_OK, TRUE, [webPages |-> [value |-> l]]) : l \in lists}

\* data.get("webPages", {}).get("value", [])
ResponseEntries(resp) == Get(Get(resp.data, "webPages", EmptyDict), "value", <<>>)

\* A plausible slip: the title read from the key "title", which the provider never sends.
search_bing_title_key(resp) ==
    IF resp.transport = "failed" THEN Raise("ClientError")
    ELSE IF resp.status = HTTP_OK
    THEN IF ~resp.json THEN Raise("ContentTypeError")
         ELSE LET value == ResponseEntries(resp)
              IN  Return([i \in 1..Len(value) |->
                            [url |-> Get(value[i], "url", ""),
                             title |-> Get(value[i], "title", "")]])
    ELSE Return(<<>>)

\* Lines 30-43.  Nothing is caught: a failing request (line 31) or a body that
\* is not the expected JSON (lines 33-40) leaves the coroutine as an exception.
search_bing(resp) ==
    IF resp.transport = "failed" THEN Raise("ClientError")
    ELSE IF resp.status = HTTP_OK
    THEN IF ~resp.json THEN Raise("ContentTypeError")
         ELSE LET value == ResponseEntries(resp)
              IN  Return([i \in 1..Len(value) |->
                            [url |-> Get(value[i], "url", ""),
                             title |-> Get(value[i], "name", "")]])
    ELSE Return(<<>>)

(***************************************************************************)
(* Pages, text extraction and fetch_webpage_content (lines 45-78).         *)
(***************************************************************************)
\* An HTML document: its top-level elements, each with the text nodes of its subtree.
Element(t, strs) == [tag |-> t, strings |-> strs]
RemovedTags == {"script", "style", "nav", "header", "footer"}

PageA == <<Element("nav", << <<"x">> >>), Element("p", << <<" ", "a", "\n">> >>)>>
PageB == <<Element("p", << <<"b", " ", "\n", "c">>, <<" ">> >>), Element("script", << <<"y">> >>)>>
PageBlank == <<Element("style", << <<"z">> >>), Element("p", << <<" ", "\n">> >>)>>
Pages == {PageA, PageB, PageBlank}

\* Lines 57-67: decompose the removed tags, get_text(separator=' ', strip=True),
\* then ' '.join(text.split()).
extract_text(html) ==
    LET kept == SelectSeq(html, LAMBDA e : e.tag \notin RemovedTags)
        strs == Flatten([i \in 1..Len(kept) |-> kept[i].strings])
        stripped == [i \in 1..Len(strs) |-> Strip(strs[i])]
        text == JoinSpace(NonEmpty(stripped))
    IN  JoinSpace(Split(text))

FetchOutcome(k, st, h) == [kind |-> k, status |-> st, html |-> h]
NotCompleted == FetchOutcome("pending", 0, <<>>)
TimedOut == FetchOutcome("Timeout", 0, <<>>)
Rejected == FetchOutcome("InvalidURL", 0, <<>>)

\* What the remote server can make of a request for a well-formed URL.
ServerOutcomes ==
    {FetchOutcome("ConnectionError", 0, <<>>), FetchOutcome("Status", 404, <<>>),
     FetchOutcome("BodyError", HTTP_OK, <<>>), FetchOutcome("ParseError", HTTP_OK, <<>>)}
    \cup {FetchOutcome("Page", HTTP_OK, h) : h \in Pages}

\* session.get() refuses a URL without a host, the empty string included.
ValidURL(url) == url # ""

\* The body of the try block, lines 53-75.
fetch_try(url, o) ==
    CASE o.kind = "InvalidURL" -> Raise("InvalidURL")
      [] o.kind = "ConnectionError" -> Raise("ClientConnectionError")
      [] o.kind = "Timeout" -> Raise("TimeoutError")
      [] o.kind = "BodyError" -> Raise("UnicodeDecodeError")
      [] o.kind = "ParseError" -> Raise("ParserError")
      [] OTHER -> IF o.status = HTTP_OK THEN Return(extract_text(o.html))
                  ELSE Return(EmptyText)

ClientErrors == {"InvalidURL", "ClientConnectionError"}

\* A plausible slip: except aiohttp.ClientError, which lets the others through.
fetch_webpage_content_client_errors(url, o) ==
    LET r == fetch_try(url, o)
    IN  IF r.raised /\ r.exc \in ClientErrors THEN Return(EmptyText) ELSE r

\* Lines 52-78: except Exception catches whatever the try block raises.
fetch_webpage_content(url, o) ==
    LET r == fetch_try(url, o)
    IN  IF r.raised THEN Return(EmptyText) ELSE r

(***************************************************************************)
(* asyncio.gather and the join (lines 87-89).                              *)
(***************************************************************************)
\* A plausible slip: results appended as each fetch completes.
StoreByCompletion(slots, waiting, i, text) ==
    [slots EXCEPT ![Len(slots) - Cardinality(waiting) + 1] = text]

\* gather keeps the result of the i-th awaitable in the i-th slot.
StoreResult(slots, waiting, i, text) == [slots EXCEPT ![i] = text]

\* A plausible slip: return as soon as one fetch is done.
GatherFirstCompleted(waiting, n) == n = 0 \/ Cardinality(waiting) < n

\* gather resumes its caller when no awaitable is left.
GatherReady(waiting, n) == waiting = {}

\* A plausible slip: the join without the filter.
JoinAll(slots) == JoinSpace(slots)

\* Line 89: ' '.join(filter(bool, contents))
JoinCorpus(slots) == JoinSpace(NonEmpty(slots))

\* A plausible slip: the request sent without timeout=10.
NoTimeout(waiting, i) == FALSE

\* Line 54: the timeout is armed for every request in flight.
TimeoutArmed(waiting, i) == i \in waiting

(***************************************************************************)
(* The summarization service and summarize_with_gemini (lines 91-125).     *)
(***************************************************************************)
Candidate(t) == [content |-> [parts |-> <<[text |-> t]>>]]
FixedSummary == <<"s">>

GeminiResponses(text) ==
    {TransportFailure, HttpReply(429, TRUE, EmptyDict),
     HttpReply(HTTP_OK, FALSE, EmptyDict), HttpReply(HTTP_OK, TRUE, EmptyDict),
     HttpReply(HTTP_OK, TRUE, [candidates |-> <<>>])}
    \cup {HttpReply(HTTP_OK, TRUE, [candidates |-> <<Candidate(t)>>]) : t \in {FixedSummary, text}}

\* Lines 118-125.  Nothing is caught: requests.post (line 118), response.json()
\* (line 121) and the subscripts of line 122 raise into the caller.
summarize_with_gemini(text, resp) ==
    IF resp.transport = "failed" THEN Raise("ConnectionError")
    ELSE IF resp.status = HTTP_OK
    THEN IF ~resp.json THEN Raise("JSONDecodeError")
         ELSE IF "candidates" \notin DOMAIN resp.data THEN Raise("KeyError")
         ELSE IF resp.data.candidates = <<>> THEN Raise("IndexError")
         ELSE Return(resp.data.candidates[1].content.parts[1].text)
    ELSE Return(EmptyText)

(***************************************************************************)
(* research_and_summarize (lines 127-146) as a state machine.              *)
(***************************************************************************)
NoReply == [transport |-> "none", status |-> 0, json |-> FALSE, data |-> EmptyDict]
\* The service has taken the request and will never answer it.
Silent == [transport |-> "silent", status |-> 0, json |-> FALSE, data |-> EmptyDict]

Init ==
    /\ pc = "idle"
    /\ searchResponse = NoReply
    /\ search_results = <<>>
    /\ pending = {}
    /\ outcome = <<>>
    /\ contents = <<>>
    /\ reversed = TRUE
    /\ scraped_content = EmptyText
    /\ geminiResponse = NoReply
    /\ summary = EmptyText
    /\ raisedIn = "none"
    /\ stages = <<>>
    /\ fetchCalls = <<>>
    /\ summarizeArgs = <<>>

\* Line 160 runs the coroutine; line 135 sends the search request.
Submit ==
    /\ pc = "idle"
    /\ pc' = "search"
    /\ stages' = Append(stages, "SEARCH")
    /\ UNCHANGED <<searchResponse, search_results, pending, outcome, contents, reversed,
                   scraped_content, geminiResponse, summary, raisedIn, fetchCalls,
                   summarizeArgs>>

\* Line 135 resumes with the provider's reply; on a result, lines 141 and 87-88
\* create one fetch coroutine per search result and hand them to gather.
SearchRespond(resp) ==
    /\ pc = "search"
    /\ searchResponse' = resp
    /\ LET r == search_bing(resp)
           n == Len(r.value)
       IN  IF r.raised
           THEN /\ pc' = "raised"
                /\ raisedIn' = "search"
                /\ UNCHANGED <<search_results, pending, outcome, contents, stages,
                               fetchCalls>>
           ELSE /\ pc' = "aggregate"
                /\ search_results' = r.value
                /\ pending' = 1..n
                /\ outcome' = [i \in 1..n |-> NotCompleted]
                /\ contents' = [i \in 1..n |-> EmptyText]
                /\ fetchCalls' = [i \in 1..n |-> 1]
                /\ stages' = Append(stages, "AGGREGATE")
                /\ UNCHANGED raisedIn
    /\ UNCHANGED <<reversed, scraped_content, geminiResponse, summary, summarizeArgs>>

\* One fetch coroutine runs to its end with outcome o (lines 52-78); gather
\* stores its result, or passes its exception on to the caller at once.
Complete(i, o) ==
    /\ pc = "aggregate"
    /\ i \in pending
    /\ outcome' = [outcome EXCEPT ![i] = o]
    /\ pending' = pending \ {i}
    /\ reversed' = (reversed /\ \A j \in DOMAIN contents \ pending : i < j)
    /\ LET r == fetch_webpage_content(search_results[i].url, o)
       IN  IF r.raised
           THEN /\ pc' = "raised"
                /\ raisedIn' = "fetch"
                /\ UNCHANGED contents
           ELSE /\ contents' = StoreResult(contents, pending, i, r.value)
                /\ UNCHANGED <<pc, raisedIn>>
    /\ UNCHANGED <<searchResponse, search_results, scraped_content, geminiResponse,
                   summary, stages, fetchCalls, summarizeArgs>>

\* The server of a well-formed URL answers, or the connection fails.
FetchRespond(i, o) ==
    /\ i \in DOMAIN search_results
    /\ ValidURL(search_results[i].url)
    /\ Complete(i, o)

\* The URL is refused before anything is sent.
FetchRejected(i) ==
    /\ i \in DOMAIN search_results
    /\ ~ValidURL(search_results[i].url)
    /\ Complete(i, Rejected)

\* The timeout of line 54 fires on a request still in flight.
FetchTimeout(i) ==
    /\ i \in DOMAIN search_results
    /\ ValidURL(search_results[i].url)
    /\ TimeoutArmed(pending, i)
    /\ Complete(i, TimedOut)

\* Lines 88-89 and 141-144: gather resumes parallel_webpage_scraping, which
\* joins and returns; research_and_summarize posts the corpus to the summarizer.
AggregateReturn ==
    /\ pc = "aggregate"
    /\ GatherReady(pending, Len(search_results))
    /\ scraped_content' = JoinCorpus(contents)
    /\ pc' = "summarize"
    /\ stages' = Append(stages, "SUMMARIZE")
    /\ summarizeArgs' = Append(summarizeArgs, JoinCorpus(contents))
    /\ UNCHANGED <<searchResponse, search_results, pending, outcome, contents, reversed,
                   geminiResponse, summary, raisedIn, fetchCalls>>

\* Lines 118-125 and 144-146: the service's reply ends the call.
SummarizeRespond(resp) ==
    /\ pc = "summarize"
    /\ geminiResponse = NoReply
    /\ geminiResponse' = resp
    /\ LET r == summarize_with_gemini(scraped_content, resp)
       IN  IF r.raised
           THEN /\ pc' = "raised"
                /\ raisedIn' = "summarize"
                /\ UNCHANGED summary
           ELSE /\ pc' = "done"
                /\ summary' = r.value
                /\ UNCHANGED raisedIn
    /\ UNCHANGED <<searchResponse, search_results, pending, outcome, contents, reversed,
                   scraped_content, stages, fetchCalls, summarizeArgs>>

SummarizerReplies ==
    \E resp \in GeminiResponses(scraped_content) : SummarizeRespond(resp)

\* Line 118: requests.post is given no timeout, so with a service that never
\* answers the call, and research_and_summarize with it, blocks for good.
SummarizerHangs ==
    /\ pc = "summarize"
    /\ geminiResponse = NoReply
    /\ geminiResponse' = Silent
    /\ UNCHANGED <<pc, searchResponse, search_results, pending, outcome, contents,
                   reversed, scraped_content, summary, raisedIn, stages, fetchCalls,
                   summarizeArgs>>

Next ==
    \/ Submit
    \/ \E resp \in SearchResponses(Lists(PipelineEntries, MaxResults)) : SearchRespond(resp)
    \/ \E i \in 1..MaxResults, o \in ServerOutcomes : FetchRespond(i, o)
    \/ \E i \in 1..MaxResults : FetchRejected(i)
    \/ \E i \in 1..MaxResults : FetchTimeout(i)
    \/ AggregateReturn
    \/ SummarizerReplies
    \/ SummarizerHangs

Spec == Init /\ [][Next]_vars

\* The timeout of line 54 makes every fetch end, and the event loop runs a
\* ready coroutine.  The summarization service, once called, answers or stays
\* silent; requests.post (line 118) has no timeout that would end the wait.
\* Nothing is promised of the search request (line 31).
Fairness ==
    /\ \A i \in 1..MaxResults : WF_vars(FetchTimeout(i)) /\ WF_vars(FetchRejected(i))
    /\ WF_vars(AggregateReturn)
    /\ WF_vars(SummarizerReplies \/ SummarizerHangs)

LiveSpec == Spec /\ Fairness

\* The search stage alone, over replies of up to MaxEntries entries: the
\* request, the reply and the creation of the fetch coroutines.
NextSearch ==
    \/ Submit
    \/ \E resp \in SearchResponses(PeriodicLists(EntryKinds, MaxEntries)) : SearchRespond(resp)

SpecSearch == Init /\ [][NextSearch]_vars

(***************************************************************************)
(* Properties.                                                             *)
(***************************************************************************)
\* parallel_webpage_scraping has returned (the summarizer has been called).
Aggregated == Len(stages) = 3
Terminated == pc \in {"done", "raised"}

\* The page text a reply stands for: the extracted text of a 200 page, else "".
PageTextOf(o) == IF o.kind = "Page" THEN extract_text(o.html) ELSE EmptyText

\* The single-space join of the non-empty page texts of positions 1..k, in
\* position order.
RECURSIVE CorpusUpTo(_)
CorpusUpTo(k) ==
    IF k = 0 THEN EmptyText
    ELSE LET before == CorpusUpTo(k - 1)
             t == PageTextOf(outcome[k])
         IN  IF t = EmptyText THEN before
             ELSE IF before = EmptyText THEN t
             ELSE before \o <<Space>> \o t

RemoveAt(seq, i) == SubSeq(seq, 1, i - 1) \o SubSeq(seq, i + 1, Len(seq))

\* C1: whatever the order in which the fetches complete, the corpus returned
\* by parallel_webpage_scraping is the single-space join of the non-empty
\* page texts in search-result order.
C1_CorpusInInputOrder ==
    Aggregated => scraped_content = CorpusUpTo(Len(search_results))

\* Three fetches completed in the order 3, 2, 1; the first and the last page
\* have different non-empty texts and the corpus has them in input order.
C1_Witness ==
    /\ Aggregated
    /\ Len(search_results) = 3
    /\ reversed
    /\ outcome[1] = FetchOutcome("Page", HTTP_OK, PageA)
    /\ outcome[2] = FetchOutcome("Page", HTTP_OK, PageBlank)
    /\ outcome[3] = FetchOutcome("Page", HTTP_OK, PageB)
    /\ scraped_content = <<"a", " ", "b", " ", "c">>

\* C2: no stage lets an exception out: research_and_summarize never raises,
\* whichever of the three failure kinds a stage meets.
C2_NoExceptionEscapes == pc # "raised"

\* C3: fetch_webpage_content never raises, and everything but a page served
\* with status 200 gives the empty string; the gather is never aborted.
C3_FetchNeverRaises ==
    /\ raisedIn # "fetch"
    /\ \A i \in DOMAIN outcome :
          (i \notin pending /\ outcome[i].kind # "Page") => contents[i] = EmptyText

\* A timeout, an unreadable body and an extraction error in one batch, and
\* the batch was joined and handed to the summarizer.
C3_Witness ==
    /\ pc = "summarize"
    /\ Len(search_results) = 3
    /\ {outcome[i].kind : i \in DOMAIN outcome} = {"Timeout", "BodyError", "ParseError"}
    /\ scraped_content = EmptyText

\* C4: once parallel_webpage_scraping has returned (and the summarizer was
\* started), no fetch of the query is in flight.
C4_NoEarlyReturn ==
    (Aggregated \/ summarizeArgs # <<>>) =>
        /\ pending = {}
        /\ \A i \in DOMAIN outcome : outcome[i] # NotCompleted

\* The summarizer is running after a batch of three in which one fetch had
\* to be ended by its timeout.
C4_Witness ==
    /\ pc = "summarize"
    /\ Len(search_results) = 3
    /\ \E i \in DOMAIN outcome : outcome[i] = TimedOut
    /\ \E i \in DOMAIN outcome : outcome[i].kind = "Page"

\* C5: for every query the stages run as SEARCH, AGGREGATE, SUMMARIZE, each
\* exactly once: when research_and_summarize has ended, the search was made
\* once, every search result was fetched once and the summarizer was called
\* once, with the aggregated corpus.
C5_EachStageExactlyOnce ==
    Terminated =>
        /\ stages = <<"SEARCH", "AGGREGATE", "SUMMARIZE">>
        /\ \A i \in DOMAIN search_results : fetchCalls[i] = 1
        /\ summarizeArgs = <<scraped_content>>

\* C6: search_bing returns at most 10 results whatever the provider replies,
\* so at most 10 fetches are in flight.
C6_AtMostTenResults ==
    /\ Len(search_results) <= COUNT
    /\ Cardinality(pending) <= COUNT

\* C7: with no search results, or with every fetch giving the empty string,
\* the corpus is empty, the summarizer is called once with it and
\* research_and_summarize returns its result without raising.
C7_EmptyCorpusStillSummarized ==
    (/\ Terminated
     /\ Len(stages) >= 2
     /\ \A i \in DOMAIN contents : contents[i] = EmptyText)
    => /\ scraped_content = EmptyText
       /\ summarizeArgs = <<EmptyText>>
       /\ pc = "done"

\* The entries a reply carries, read off its body.
EntriesOf(resp) ==
    IF "webPages" \in DOMAIN resp.data
    THEN IF "value" \in DOMAIN resp.data.webPages THEN resp.data.webPages.value ELSE <<>>
    ELSE <<>>

\* C8: a 200 reply with N <= 10 entries gives exactly N results in the
\* reply's order, url and title taken from url and name, "" where the field
\* is missing; any other status gives the empty sequence.
C8_SearchResultsMirrorResponse ==
    (searchResponse.transport = "ok" /\ searchResponse.json) =>
        LET entries == EntriesOf(searchResponse)
        IN  /\ (searchResponse.status = HTTP_OK /\ Len(entries) <= COUNT) =>
                  /\ pc = "aggregate"
                  /\ Len(search_results) = Len(entries)
                  /\ \A i \in 1..Len(entries) :
                        /\ search_results[i].url =
                             (IF "url" \in DOMAIN entries[i] THEN entries[i].url ELSE "")
                        /\ search_results[i].title =
                             (IF "name" \in DOMAIN entries[i] THEN entries[i].name ELSE "")
            /\ searchResponse.status # HTTP_OK =>
                  /\ pc = "aggregate"
                  /\ search_results = <<>>

\* A 200 reply of exactly 10 entries, one without url and one without name,
\* has been turned into 10 results.
C8_Witness ==
    /\ searchResponse.transport = "ok"
    /\ searchResponse.json
    /\ searchResponse.status = HTTP_OK
    /\ Len(EntriesOf(searchResponse)) = COUNT
    /\ EntriesOf(searchResponse)[1] = EntryB
    /\ EntriesOf(searchResponse)[2] = EntryNoUrl
    /\ EntriesOf(searchResponse)[3] = EntryNoName
    /\ Len(search_results) = COUNT
    /\ search_results[1] = [url |-> "http://b", title |-> "B"]
    /\ search_results[2] = [url |-> "", title |-> "A"]
    /\ search_results[3] = [url |-> "http://a", title |-> ""]

\* C9 as stated: every call is bounded by a timeout, so once the search has
\* returned, the aggregation and then the summarization end and
\* research_and_summarize returns.
C9_QueryAlwaysReturns == (pc = "aggregate") ~> Terminated

\* C9 as amended: once the search has returned, the aggregation ends, every
\* fetch having answered or timed out, and the summarizer is called.
C9_AggregationTerminates == (pc = "aggregate") ~> (pc = "summarize")

\* The summarizer was called after a batch in which every fetch had to be
\* ended by its timeout.
C9_Witness ==
    /\ pc = "summarize"
    /\ Len(search_results) = 3
    /\ \A i \in DOMAIN outcome : outcome[i] = TimedOut

\* C10: the text a position contributes is a function of that position's own
\* reply (the slot of a fetch still in flight is untouched), and a failed
\* fetch leaves the corpus that the list without that result gives.
C10_FetchesIndependent ==
    /\ \A j \in DOMAIN contents :
          contents[j] = IF j \in pending THEN EmptyText ELSE PageTextOf(outcome[j])
    /\ Aggregated =>
          \A i \in DOMAIN outcome :
              outcome[i].kind # "Page" => scraped_content = JoinCorpus(RemoveAt(contents, i))

\* The middle fetch of three failed with a 404 between two pages with text.
C10_Witness ==
    /\ Aggregated
    /\ Len(search_results) = 3
    /\ outcome[1] = FetchOutcome("Page", HTTP_OK, PageB)
    /\ outcome[2] = FetchOutcome("Status", 404, <<>>)
    /\ outcome[3] = FetchOutcome("Page", HTTP_OK, PageA)
    /\ scraped_content = <<"b", " ", "c", " ", "a">>
====
